---------------------------- MODULE Spec2Model ----------------------------
(***************************************************************************)
(* A model of the hachimi music plugin (src/__init__.py): the catalog      *)
(* loader, the play / search / reload / push handlers and the fuzzy        *)
(* matching functions the search handler is built from.                    *)
(*                                                                         *)
(* Text is a sequence of one-character strings.  "U54C8" stands for the    *)
(* CJK ideograph U+54C8, whose pinyin reading is "ha", and "U00B2" for the *)
(* superscript two U+00B2.                                                 *)
(* Scores are exact rationals scaled by 100 * SimDen: the source computes  *)
(* them in floating point.                                                 *)
(***************************************************************************)
EXTENDS Integers, Sequences, FiniteSets, TLC

VARIABLES
    disk,                     \* the files in the music_data directory
    music_files,              \* index -> [title, filename]         (line 55)
    play_counts_by_filename,  \* filename -> count                  (line 62)
    enabled_push_groups,      \* set of group ids                   (line 66)
    PYPINYIN_AVAILABLE,       \* _PYPINYIN_AVAILABLE                (lines 22-26)
    reply,                    \* what the last handler or function call answered
    push,                     \* the scheduled push job in progress
    played                    \* history: counted play requests per filename

vars == <<disk, music_files, play_counts_by_filename, enabled_push_groups,
          PYPINYIN_AVAILABLE, reply, push, played>>

---------------------------------------------------------------------------
(* Bounds of the model *)

\* longest query text of the scoring specification
MaxQueryLen == 2
\* longest title of the scoring specification
MaxTitleLen == 2
\* most audio files in a directory of the ranking specification
MaxCatalog == 11
\* most play requests that are counted
MaxPlays == 2
\* longest text normalize_text is applied to
MaxInputLen == 3

---------------------------------------------------------------------------
(* Characters *)

CJKChars == {"U54C8"}
LatinLower == {"a", "h"}
LatinUpper == {"A"}
DigitChars == {"0", "1", "9"}
SpaceChars == {" "}
\* digits to str.isdigit() that int() does not read
SuperscriptChars == {"U00B2"}

\* str.lower() on one character
Lower(ch) == IF ch = "A" THEN "a" ELSE ch

\* the class [一-鿿A-Za-z0-9] of _non_cjk_alnum_space
IsCjkAlnum(ch) == ch \in CJKChars \cup LatinLower \cup LatinUpper \cup DigitChars

\* the class \s of _spaces
IsSpace(ch) == ch \in SpaceChars

\* all texts over the characters cs of length at most n
TextsUpTo(cs, n) == UNION {[1..k -> cs] : k \in 0..n}

\* Python's "x in y" on strings
IsSubstring(x, y) ==
    \E s \in 0..(Len(y) - Len(x)) : \A i \in 1..Len(x) : y[s + i] = x[i]

\* concatenation of a sequence of texts: "".join(parts)
RECURSIVE Join(_)
Join(parts) == IF parts = <<>> THEN <<>> ELSE Head(parts) \o Join(Tail(parts))

---------------------------------------------------------------------------
(* normalize_text *)

\* the text after the leading run of characters outside the kept class
RECURSIVE DropRun(_)
DropRun(s) ==
    IF s = <<>> \/ IsCjkAlnum(Head(s)) THEN s ELSE DropRun(Tail(s))

\* _non_cjk_alnum_space.sub(" ", text): every maximal run becomes one space
RECURSIVE SubNonAlnum(_)
SubNonAlnum(s) ==
    IF s = <<>> THEN <<>>
    ELSE IF IsCjkAlnum(Head(s)) THEN <<Head(s)>> \o SubNonAlnum(Tail(s))
    ELSE <<" ">> \o SubNonAlnum(DropRun(s))

\* _spaces.sub("", text)
SubSpaces(s) == SelectSeq(s, LAMBDA ch : ~IsSpace(ch))

LowerText(s) == [i \in 1..Len(s) |-> Lower(s[i])]

\* a normalize_text that stops after the first substitution
normalize_text_spaced(text) ==
    IF text = <<>> THEN <<>>
    ELSE SubNonAlnum(LowerText(text))

normalize_text(text) ==
    IF text = <<>> THEN <<>>
    ELSE SubSpaces(SubNonAlnum(LowerText(text)))

---------------------------------------------------------------------------
(* text_to_pinyin, text_to_pinyin_initials *)

\* lazy_pinyin on one character: the reading of an ideograph, any other
\* character unchanged
PinyinOf(ch) == IF ch = "U54C8" THEN <<"h", "a">> ELSE <<ch>>

\* lazy_pinyin(..., style=Style.FIRST_LETTER) on one character
InitialOf(ch) == IF ch = "U54C8" THEN <<"h">> ELSE <<ch>>

text_to_pinyin(avail, text) ==
    IF ~avail \/ text = <<>> THEN <<>>
    ELSE Join([i \in 1..Len(text) |-> PinyinOf(text[i])])

text_to_pinyin_initials(avail, text) ==
    IF ~avail \/ text = <<>> THEN <<>>
    ELSE Join([i \in 1..Len(text) |-> InitialOf(text[i])])

---------------------------------------------------------------------------
(* try_regex_match *)

\* re.compile(pattern, re.IGNORECASE) succeeds.  Of the pattern characters
\* modelled, "(" opens a group that nothing closes: re.error.
RegexCompiles(pattern) == \A i \in 1..Len(pattern) : pattern[i] # "("

\* the pattern from its i-th character on matches c at offset pos:
\* "^" asserts the start of the text, "." takes any character, every other
\* character is a literal compared without regard to case
RECURSIVE MatchHere(_, _, _, _)
MatchHere(pattern, i, c, pos) ==
    IF i > Len(pattern) THEN TRUE
    ELSE IF pattern[i] = "^" THEN pos = 0 /\ MatchHere(pattern, i + 1, c, pos)
    ELSE IF pos >= Len(c) THEN FALSE
    ELSE IF pattern[i] = "." THEN MatchHere(pattern, i + 1, c, pos + 1)
    ELSE Lower(pattern[i]) = Lower(c[pos + 1])
         /\ MatchHere(pattern, i + 1, c, pos + 1)

\* compiled.search(c): a match starting anywhere
RegexSearch(pattern, c) == \E s \in 0..Len(c) : MatchHere(pattern, 1, c, s)

\* try_regex_match without the "if not c: continue" of lines 171-172
try_regex_match_noskip(pattern, candidates) ==
    IF pattern = <<>> THEN FALSE
    ELSE IF ~RegexCompiles(pattern) THEN FALSE
    ELSE \E k \in 1..Len(candidates) : RegexSearch(pattern, candidates[k])

try_regex_match(pattern, candidates) ==
    IF pattern = <<>> THEN FALSE
    ELSE IF ~RegexCompiles(pattern) THEN FALSE
    ELSE \E k \in 1..Len(candidates) :
            candidates[k] # <<>> /\ RegexSearch(pattern, candidates[k])

---------------------------------------------------------------------------
(* similarity_ratio *)

\* length of the common run of a from i and b from j (0-based starts)
RECURSIVE RunLen(_, _, _, _)
RunLen(a, b, i, j) ==
    IF i < Len(a) /\ j < Len(b) /\ a[i + 1] = b[j + 1]
    THEN 1 + RunLen(a, b, i + 1, j + 1) ELSE 0

\* SequenceMatcher.find_longest_match over the whole of a and b: the longest
\* block, of those the one starting earliest in a, of those earliest in b
FindLongestMatch(a, b) ==
    LET starts == {<<i, j>> \in (0..(Len(a) - 1)) \X (0..(Len(b) - 1)) : TRUE}
        best == CHOOSE p \in starts :
                  \A q \in starts :
                     LET kp == RunLen(a, b, p[1], p[2])
                         kq == RunLen(a, b, q[1], q[2])
                     IN  \/ kp > kq
                         \/ kp = kq /\ p[1] < q[1]
                         \/ kp = kq /\ p[1] = q[1] /\ p[2] <= q[2]
    IN  <<best[1], best[2], RunLen(a, b, best[1], best[2])>>

\* sum of the sizes of SequenceMatcher.get_matching_blocks(): the longest
\* block, then the same to its left and to its right
RECURSIVE MatchedLength(_, _)
MatchedLength(a, b) ==
    IF a = <<>> \/ b = <<>> THEN 0
    ELSE LET m == FindLongestMatch(a, b)
         IN  IF m[3] = 0 THEN 0
             ELSE m[3]
                  + MatchedLength(SubSeq(a, 1, m[1]), SubSeq(b, 1, m[2]))
                  + MatchedLength(SubSeq(a, m[1] + m[3] + 1, Len(a)),
                                  SubSeq(b, m[2] + m[3] + 1, Len(b)))

RECURSIVE Gcd(_, _)
Gcd(x, y) == IF y = 0 THEN x ELSE Gcd(y, x % y)

RECURSIVE LcmUpTo(_)
LcmUpTo(n) == IF n <= 1 THEN 1
              ELSE LET l == LcmUpTo(n - 1) IN (l * n) \div Gcd(l, n)

\* the longest text a ratio is taken of: a pinyin reading doubles an ideograph
MaxTextLen == 2 * (IF MaxQueryLen > MaxTitleLen THEN MaxQueryLen ELSE MaxTitleLen)

\* the common denominator of every ratio 2*M/T
SimDen == LcmUpTo(2 * MaxTextLen)

\* similarity_ratio(a, b) * SimDen
similarity_ratio(a, b) ==
    IF a = <<>> \/ b = <<>> THEN 0
    ELSE (2 * MatchedLength(a, b) * SimDen) \div (Len(a) + Len(b))

---------------------------------------------------------------------------
(* compute_match_score *)

\* a weight of the source, in units of 1 / (100 * SimDen)
Weight(hundredths) == hundredths * SimDen

\* compute_match_score with the four match signals made exclusive (elif)
compute_match_score_exclusive(avail, query, title) ==
    IF query = <<>> \/ title = <<>> THEN 0
    ELSE LET q_norm == normalize_text(query)
             t_norm == normalize_text(title)
             q_py   == text_to_pinyin(avail, query)
             t_py   == text_to_pinyin(avail, title)
             q_ini  == text_to_pinyin_initials(avail, query)
             t_ini  == text_to_pinyin_initials(avail, title)
         IN  (IF try_regex_match(query, <<title, t_norm, t_py>>)
                 THEN Weight(120)
              ELSE IF q_norm # <<>> /\ IsSubstring(q_norm, t_norm)
                 THEN Weight(100)
              ELSE IF q_py # <<>> /\ IsSubstring(q_py, t_py)
                 THEN Weight(90)
              ELSE IF q_ini # <<>> /\ IsSubstring(q_ini, t_ini)
                 THEN Weight(85) ELSE 0)
           + similarity_ratio(q_norm, t_norm) * 80
           + similarity_ratio(q_py, t_py) * 60
           + similarity_ratio(q_ini, t_ini) * 50

\* compute_match_score(query, title) * 100 * SimDen
compute_match_score(avail, query, title) ==
    IF query = <<>> \/ title = <<>> THEN 0
    ELSE LET q_norm == normalize_text(query)
             t_norm == normalize_text(title)
             q_py   == text_to_pinyin(avail, query)
             t_py   == text_to_pinyin(avail, title)
             q_ini  == text_to_pinyin_initials(avail, query)
             t_ini  == text_to_pinyin_initials(avail, title)
         IN  (IF try_regex_match(query, <<title, t_norm, t_py>>)
                 THEN Weight(120) ELSE 0)
           + (IF q_norm # <<>> /\ IsSubstring(q_norm, t_norm)
                 THEN Weight(100) ELSE 0)
           + (IF q_py # <<>> /\ IsSubstring(q_py, t_py)
                 THEN Weight(90) ELSE 0)
           + (IF q_ini # <<>> /\ IsSubstring(q_ini, t_ini)
                 THEN Weight(85) ELSE 0)
           + similarity_ratio(q_norm, t_norm) * 80
           + similarity_ratio(q_py, t_py) * 60
           + similarity_ratio(q_ini, t_ini) * 50

---------------------------------------------------------------------------
(* The scoring specification: compute_match_score and try_regex_match      *)
(* applied to every query and title within the bounds.                     *)

ScoreQueryChars == {"a", "h", "A", " ", "^", "(", "U54C8"}
ScoreTitleChars == {"a", "h", "A", " ", "U54C8"}

ScoreQueries == TextsUpTo(ScoreQueryChars, MaxQueryLen)
ScoreTitles == TextsUpTo(ScoreTitleChars, MaxTitleLen)

\* the candidate lists the prober is called with for a title: the list of
\* line 200, and shorter lists with and without an empty candidate
ProbeCandidates(avail, title) ==
    { <<>>, <<title>>, <<<<>>, title>>,
      <<title, normalize_text(title), text_to_pinyin(avail, title)>> }

\* the parts of the state the pure-function specifications leave alone
Idle ==
    /\ disk = <<>>
    /\ music_files = <<>>
    /\ play_counts_by_filename = <<>>
    /\ enabled_push_groups = {}
    /\ push = <<>>
    /\ played = <<>>

InitScore ==
    /\ Idle
    /\ PYPINYIN_AVAILABLE \in BOOLEAN
    /\ \E q \in ScoreQueries, t \in ScoreTitles :
          reply = [kind |-> "input", query |-> q, title |-> t]

ScoreCall ==
    /\ reply.kind = "input"
    /\ reply' = [kind |-> "score", query |-> reply.query, title |-> reply.title,
                 score |-> compute_match_score(PYPINYIN_AVAILABLE,
                                               reply.query, reply.title)]
    /\ UNCHANGED <<disk, music_files, play_counts_by_filename,
                   enabled_push_groups, PYPINYIN_AVAILABLE, push, played>>

ProbeCall ==
    /\ reply.kind = "input"
    /\ \E cands \in ProbeCandidates(PYPINYIN_AVAILABLE, reply.title) :
          reply' = [kind |-> "probe", pattern |-> reply.query,
                    candidates |-> cands,
                    result |-> try_regex_match(reply.query, cands)]
    /\ UNCHANGED <<disk, music_files, play_counts_by_filename,
                   enabled_push_groups, PYPINYIN_AVAILABLE, push, played>>

NextScore == ScoreCall \/ ProbeCall

SpecScore == InitScore /\ [][NextScore]_vars

---------------------------------------------------------------------------
(* Claims about the scoring functions, under SpecScore *)

\* C6: compute_match_score is 0 when the query or the title is empty, and
\* otherwise the sum of every signal that applies, none excluding another:
\* 1.20 for the regex, 1.00, 0.90 and 0.85 for the three substring tests,
\* and 0.80, 0.60 and 0.50 times the three similarities; so it lies
\* between 0 and 5.85.
C6_ScoreIsSumOfSignals ==
    reply.kind = "score" =>
        LET avail == PYPINYIN_AVAILABLE
            q == reply.query
            t == reply.title
            qn == normalize_text(q)
            tn == normalize_text(t)
            qp == text_to_pinyin(avail, q)
            tp == text_to_pinyin(avail, t)
            qi == text_to_pinyin_initials(avail, q)
            ti == text_to_pinyin_initials(avail, t)
            regex == /\ RegexCompiles(q)
                     /\ \E c \in {t, tn, tp} : c # <<>> /\ RegexSearch(q, c)
            norm == qn # <<>> /\ IsSubstring(qn, tn)
            pinyin == qp # <<>> /\ IsSubstring(qp, tp)
            initials == qi # <<>> /\ IsSubstring(qi, ti)
            When(signal, hundredths) == IF signal THEN hundredths ELSE 0
        IN  /\ (q = <<>> \/ t = <<>>) => reply.score = 0
            /\ (q # <<>> /\ t # <<>>) =>
                  reply.score =
                      Weight(When(regex, 120) + When(norm, 100)
                             + When(pinyin, 90) + When(initials, 85))
                    + 80 * similarity_ratio(qn, tn)
                    + 60 * similarity_ratio(qp, tp)
                    + 50 * similarity_ratio(qi, ti)
            /\ reply.score >= 0
            /\ reply.score <= Weight(585)

\* C6 witness: a pair that every signal applies to, scoring 5.85.
C6_Witness ==
    /\ reply.kind = "score"
    /\ reply.score = Weight(585)

\* C7: try_regex_match always answers; FALSE for the empty pattern, FALSE
\* for a pattern that does not compile, FALSE when every candidate is empty
\* even if the pattern matches the empty text, and otherwise TRUE exactly
\* when the pattern is found in some non-empty candidate.
C7_RegexProberTotal ==
    reply.kind = "probe" =>
        LET found == \E k \in 1..Len(reply.candidates) :
                        /\ reply.candidates[k] # <<>>
                        /\ RegexSearch(reply.pattern, reply.candidates[k])
        IN  /\ reply.result \in BOOLEAN
            /\ reply.pattern = <<>> => reply.result = FALSE
            /\ ~RegexCompiles(reply.pattern) => reply.result = FALSE
            /\ (\A k \in 1..Len(reply.candidates) : reply.candidates[k] = <<>>)
                  => reply.result = FALSE
            /\ (reply.pattern # <<>> /\ RegexCompiles(reply.pattern))
                  => (reply.result <=> found)

\* C7 witness: the pattern "^", which matches the empty text, probed on
\* empty candidates only.
C7_Witness ==
    /\ reply.kind = "probe"
    /\ reply.pattern = <<"^">>
    /\ reply.candidates = << <<>>, <<>> >>
    /\ reply.result = FALSE

---------------------------------------------------------------------------
(* The normalisation specification: normalize_text applied to every text   *)
(* within the bounds, and then to its own output.                          *)

\* a Latin letter of each case, a digit, an ideograph of the kept range,
\* two whitespace characters, a punctuation mark, and two characters near
\* the kept classes that are outside them: an ideograph of Extension A and
\* a superscript digit
NormChars == {"a", "A", "9", "U54C8", " ", "\t", "(", "U3400", "U00B2"}

NormTexts == TextsUpTo(NormChars, MaxInputLen)

InitNorm ==
    /\ Idle
    /\ PYPINYIN_AVAILABLE = FALSE
    /\ \E t \in NormTexts : reply = [kind |-> "text", text |-> t]

NormalizeCall ==
    /\ reply.kind = "text"
    /\ reply' = [kind |-> "normalized", text |-> reply.text,
                 once |-> normalize_text(reply.text)]
    /\ UNCHANGED <<disk, music_files, play_counts_by_filename,
                   enabled_push_groups, PYPINYIN_AVAILABLE, push, played>>

NormalizeAgain ==
    /\ reply.kind = "normalized"
    /\ reply' = [kind |-> "renormalized", text |-> reply.text,
                 once |-> reply.once, twice |-> normalize_text(reply.once)]
    /\ UNCHANGED <<disk, music_files, play_counts_by_filename,
                   enabled_push_groups, PYPINYIN_AVAILABLE, push, played>>

NextNorm == NormalizeCall \/ NormalizeAgain

SpecNorm == InitNorm /\ [][NextNorm]_vars

---------------------------------------------------------------------------
(* Claims about normalize_text, under SpecNorm *)

\* C11: normalize_text applied to its own output returns that output; the
\* output holds lowercase Latin letters, digits and ideographs only (no
\* uppercase letter, no whitespace, no symbol), and is empty for the empty
\* input.
C11_NormalizeIdempotent ==
    /\ reply.kind \in {"normalized", "renormalized"} =>
          /\ \A i \in 1..Len(reply.once) :
                reply.once[i] \in LatinLower \cup DigitChars \cup CJKChars
          /\ reply.text = <<>> => reply.once = <<>>
    /\ reply.kind = "renormalized" => reply.twice = reply.once

\* C11 witness: "A" followed by a bracket and a tab comes out as "a", and
\* "a" comes out of the second application unchanged.
C11_Witness ==
    /\ reply.kind = "renormalized"
    /\ reply.text = <<"A", "(", "\t">>
    /\ reply.once = <<"a">>
    /\ reply.twice = <<"a">>

---------------------------------------------------------------------------
(* load_music_files *)

\* the suffixes a file of the model may carry, in a fixed order
Suffixes == <<".mp3", ".WAV", ".flac", ".M4A", ".ogg", ".AAC",
              ".MP3", ".wav", ".FLAC", ".m4a", ".OGG", ".aac", ".Mp3", ".txt">>

\* file_path.suffix.lower()
SuffixLower(suffix) ==
    CASE suffix \in {".mp3", ".MP3", ".Mp3"} -> ".mp3"
      [] suffix \in {".wav", ".WAV"} -> ".wav"
      [] suffix \in {".flac", ".FLAC"} -> ".flac"
      [] suffix \in {".m4a", ".M4A"} -> ".m4a"
      [] suffix \in {".ogg", ".OGG"} -> ".ogg"
      [] suffix \in {".aac", ".AAC"} -> ".aac"
      [] OTHER -> suffix

audio_extensions == {".mp3", ".wav", ".flac", ".m4a", ".ogg", ".aac"}

\* a file of the directory: its name, split into stem and suffix
File(stem, suffix) == [stem |-> stem, suffix |-> suffix]

IsAudio(file) == SuffixLower(file.suffix) \in audio_extensions

\* the orders iterdir() may yield the files of a directory in
Listings(files) ==
    {l \in [1..Cardinality(files) -> files] :
        \A i, j \in 1..Cardinality(files) : i # j => l[i] # l[j]}

\* the catalog load_music_files builds from a directory listing: the audio
\* files numbered from 0 in listing order.  A missing directory is created
\* empty and gives the empty catalog, as an empty directory does.
load_music_files(listing) ==
    LET audio == SelectSeq(listing, IsAudio)
    IN  [index \in 0..(Len(audio) - 1) |->
            [title |-> audio[index + 1].stem, filename |-> audio[index + 1]]]

---------------------------------------------------------------------------
(* handle_search *)

\* the result cap of line 646
ResultCap == 10

\* threshold = 0.25, in units of 1 / (100 * SimDen)
Threshold == Weight(25)

RECURSIVE lstrip(_)
lstrip(s) == IF s # <<>> /\ IsSpace(Head(s)) THEN lstrip(Tail(s)) ELSE s

RECURSIVE rstrip(_)
rstrip(s) == IF s # <<>> /\ IsSpace(s[Len(s)])
             THEN rstrip(SubSeq(s, 1, Len(s) - 1)) ELSE s

\* str.strip()
strip(s) == rstrip(lstrip(s))

\* str.isdigit()
isdigit(s) ==
    s # <<>> /\ \A i \in 1..Len(s) : s[i] \in DigitChars \cup SuperscriptChars

\* int(s) returns: it raises ValueError on a digit that is no decimal digit
IntParses(s) == s # <<>> /\ \A i \in 1..Len(s) : s[i] \in DigitChars

DigitValue(ch) == CASE ch = "0" -> 0 [] ch = "1" -> 1 [] ch = "9" -> 9

\* int(s) of a digit string
RECURSIVE int(_)
int(s) == IF s = <<>> THEN 0
          ELSE 10 * int(SubSeq(s, 1, Len(s) - 1)) + DigitValue(s[Len(s)])

Min(x, y) == IF x <= y THEN x ELSE y

\* the titles of the files of the model, and the queries its handlers see
CatalogTitles == {<<"U54C8">>, <<"h", "9">>}

SearchTexts == { <<>>, <<"h">>, <<" ", "h">>, <<"a">>, <<"^", "h">>,
                 <<"(", "h">>, <<"0">>, <<"9">>, <<"9", "9">>, <<"U00B2">> }

\* compute_match_score on the queries and titles of the handlers, worked
\* out once
ScoreOf ==
    [avail \in BOOLEAN, query \in {strip(text) : text \in SearchTexts},
     title \in CatalogTitles |-> compute_match_score(avail, query, title)]

\* Scored with the candidates numbered from 1
ScoredFromOne(avail, catalog, query) ==
    [k \in 1..Cardinality(DOMAIN catalog) |->
        [idx |-> k, score |-> ScoreOf[avail, query, catalog[k - 1].title]]]

\* lines 635-639: one (idx, score) per catalog entry, in the dict's
\* iteration order, which is insertion order: ascending index
Scored(avail, catalog, query) ==
    [k \in 1..Cardinality(DOMAIN catalog) |->
        [idx |-> k - 1, score |-> ScoreOf[avail, query, catalog[k - 1].title]]]

\* InsertDesc with the item put before its equals: the order a sort that
\* is not stable, or an ascending sort reversed, gives
InsertDescUnstable(sorted, item) ==
    LET before == SelectSeq(sorted, LAMBDA x : x.score > item.score)
        after  == SelectSeq(sorted, LAMBDA x : x.score <= item.score)
    IN  before \o <<item>> \o after

\* item put into a list sorted by descending score, behind its equals
InsertDesc(sorted, item) ==
    LET before == SelectSeq(sorted, LAMBDA x : x.score >= item.score)
        after  == SelectSeq(sorted, LAMBDA x : x.score < item.score)
    IN  before \o <<item>> \o after

\* scored.sort(key=lambda x: x[1], reverse=True): a stable sort, so equal
\* scores keep their order
RECURSIVE SortDesc(_)
SortDesc(scored) ==
    IF scored = <<>> THEN <<>>
    ELSE InsertDesc(SortDesc(SubSeq(scored, 1, Len(scored) - 1)),
                    scored[Len(scored)])

\* Top with the fallback not cut to the cap
TopFallbackUncut(scored) ==
    LET hits == SelectSeq(scored, LAMBDA x : x.score >= Threshold)
        top  == SubSeq(hits, 1, Min(ResultCap, Len(hits)))
    IN  IF top = <<>> THEN scored ELSE top

\* Top with the threshold filter left out
TopUnfiltered(scored) == SubSeq(scored, 1, Min(ResultCap, Len(scored)))

\* lines 645-648: the first ResultCap entries at or over the threshold, or
\* of the whole list when there is none
Top(scored) ==
    LET hits == SelectSeq(scored, LAMBDA x : x.score >= Threshold)
        top  == SubSeq(hits, 1, Min(ResultCap, Len(hits)))
    IN  IF top = <<>> THEN SubSeq(scored, 1, Min(ResultCap, Len(scored)))
        ELSE top

\* lines 654-656: one line per candidate, looked up in the catalog; a
\* missing index is the KeyError of music_files[idx]
FormatLines(catalog, top) ==
    [k \in 1..Len(top) |->
        IF top[k].idx \in DOMAIN catalog
        THEN <<top[k].idx, catalog[top[k].idx].title>>
        ELSE <<top[k].idx, "KeyError">>]

\* SearchReply without the check of lines 623-624 for an empty query
SearchReplyNoUsage(avail, catalog, text) ==
    LET query == strip(text)
    IN  IF isdigit(query) /\ ~IntParses(query)
        THEN [kind |-> "ValueError", query |-> query]
        ELSE IF isdigit(query) /\ int(query) \in DOMAIN catalog
        THEN [kind |-> "id", query |-> query, idx |-> int(query),
              title |-> catalog[int(query)].title]
        ELSE LET top == Top(SortDesc(Scored(avail, catalog, query)))
             IN  IF top = <<>> THEN [kind |-> "not_found", query |-> query]
                 ELSE [kind |-> "results", query |-> query, top |-> top,
                       lines |-> FormatLines(catalog, top)]

\* what handle_search answers to the text after the command; "ValueError"
\* is the int(query) of line 628 raising, which ends the handler without
\* an answer
SearchReply(avail, catalog, text) ==
    LET query == strip(text)
    IN  IF query = <<>> THEN [kind |-> "usage", query |-> query]
        ELSE IF isdigit(query) /\ ~IntParses(query)
        THEN [kind |-> "ValueError", query |-> query]
        ELSE IF isdigit(query) /\ int(query) \in DOMAIN catalog
        THEN [kind |-> "id", query |-> query, idx |-> int(query),
              title |-> catalog[int(query)].title]
        ELSE LET top == Top(SortDesc(Scored(avail, catalog, query)))
             IN  IF top = <<>> THEN [kind |-> "not_found", query |-> query]
                 ELSE [kind |-> "results", query |-> query, top |-> top,
                       lines |-> FormatLines(catalog, top)]

\* handle_search rescanning the directory before it scores
handle_search_reloading(text) ==
    /\ \E listing \in Listings(disk) : music_files' = load_music_files(listing)
    /\ reply' = SearchReply(PYPINYIN_AVAILABLE, music_files', text)
    /\ UNCHANGED <<disk, play_counts_by_filename,
                   enabled_push_groups, PYPINYIN_AVAILABLE, push, played>>

handle_search(text) ==
    /\ reply' = SearchReply(PYPINYIN_AVAILABLE, music_files, text)
    /\ UNCHANGED <<disk, music_files, play_counts_by_filename,
                   enabled_push_groups, PYPINYIN_AVAILABLE, push, played>>

---------------------------------------------------------------------------
(* The ranking specification: handle_search on every catalog the loader    *)
(* builds from up to MaxCatalog files with the titles CatalogTitles.         *)

\* a file the loader has to pass over
TextFile == File(<<"h">>, ".txt")

\* the directory listings of the ranking specification: the k-th audio
\* file carries the k-th suffix, so no two files share a name, and the text
\* file comes second in any listing that has a first
RankListings ==
    UNION { { IF n = 0 THEN <<>>
              ELSE <<File(stems[1], Suffixes[1]), TextFile>>
                   \o [k \in 1..(n - 1) |-> File(stems[k + 1], Suffixes[k + 1])] :
                stems \in [1..n -> CatalogTitles] } : n \in 0..MaxCatalog }

\* the kinds of answer handle_search gives
SearchKinds == {"usage", "id", "not_found", "results", "ValueError"}

CatalogSize == Cardinality(DOMAIN music_files)

\* the score of the catalog entry idx against the query of the last reply
ReplyScore(idx) ==
    ScoreOf[PYPINYIN_AVAILABLE, reply.query, music_files[idx].title]

\* the indices of the candidates of the last reply
Returned == {reply.top[k].idx : k \in 1..Len(reply.top)}

\* entry i comes before entry j in the ranking
Outranks(i, j) ==
    \/ ReplyScore(i) > ReplyScore(j)
    \/ ReplyScore(i) = ReplyScore(j) /\ i < j

InitRank ==
    /\ PYPINYIN_AVAILABLE \in BOOLEAN
    /\ \E listing \in RankListings :
          /\ disk = {listing[k] : k \in 1..Len(listing)}
          /\ music_files = load_music_files(listing)
    /\ play_counts_by_filename = <<>>
    /\ enabled_push_groups = {}
    /\ push = <<>>
    /\ played = <<>>
    /\ reply = [kind |-> "none"]

NextRank == \E text \in SearchTexts : handle_search(text)

SpecRank == InitRank /\ [][NextRank]_vars

---------------------------------------------------------------------------
(* Claims about the ranking, under SpecRank: the catalog is the one the    *)
(* reply was computed from.                                                *)

\* the number of candidates the last reply lists
ResultLength ==
    CASE reply.kind = "results" -> Len(reply.top)
      [] reply.kind = "id" -> 1
      [] OTHER -> 0

\* C1: for every accepted (non-empty) query the candidate list is no longer
\* than min(ResultCap, catalog size); it is empty for the empty catalog and
\* never empty for a non-empty one.
C1_ResultLength ==
    reply.kind \in {"id", "not_found", "results"} =>
        /\ ResultLength <= Min(ResultCap, CatalogSize)
        /\ CatalogSize > 0 => ResultLength >= 1
        /\ CatalogSize = 0 => ResultLength = 0

\* C1 witness: a catalog larger than the cap answered with a full list.
C1_Witness ==
    /\ reply.kind = "results"
    /\ CatalogSize > ResultCap
    /\ Len(reply.top) = ResultCap

\* the catalog entries at or over the threshold for the query of the reply
Qualifying == {i \in DOMAIN music_files : ReplyScore(i) >= Threshold}

\* C2: a scored search of a non-empty catalog lists the best (up to
\* ResultCap) of the entries at or over the threshold when there is one,
\* every listed score then being at or over it, and the best (up to
\* ResultCap) of all entries when there is none.
C2_ThresholdOrFallback ==
    (reply.kind \in {"not_found", "results"} /\ CatalogSize > 0) =>
        /\ reply.kind = "results"
        /\ LET pool == IF Qualifying # {} THEN Qualifying
                       ELSE DOMAIN music_files
           IN  /\ Returned \subseteq pool
               /\ Len(reply.top) = Min(ResultCap, Cardinality(pool))
               /\ \A i \in Returned, j \in pool \ Returned : Outranks(i, j)
        /\ \A k \in 1..Len(reply.top) :
              reply.top[k].score = ReplyScore(reply.top[k].idx)
        /\ Qualifying # {} =>
              \A k \in 1..Len(reply.top) : reply.top[k].score >= Threshold

\* C2 witness: some entries reach the threshold and are listed, others do
\* not and are left out.
C2_Witness ==
    /\ reply.kind = "results"
    /\ Qualifying # {}
    /\ Returned = Qualifying
    /\ Qualifying # DOMAIN music_files

\* C3: the candidates are listed by descending score, equal scores by
\* ascending index, on every catalog the loader builds.
C3_Ordered ==
    reply.kind = "results" =>
        \A k, l \in 1..Len(reply.top) :
            k < l =>
                \/ reply.top[k].score > reply.top[l].score
                \/ /\ reply.top[k].score = reply.top[l].score
                   /\ reply.top[k].idx < reply.top[l].idx

\* C3 witness: a list with two equal scores and a third, different one.
C3_Witness ==
    /\ reply.kind = "results"
    /\ \E k, l, m \in 1..Len(reply.top) :
          /\ k < l
          /\ reply.top[k].score = reply.top[l].score
          /\ reply.top[m].score # reply.top[k].score

\* C5 as stated: a query of digits naming an index of the catalog is
\* answered with that one track; a query of digits naming none is scored as
\* text like any other query and answered with a ranked list.
C5_NumericQuery ==
    (reply.kind \in SearchKinds /\ isdigit(reply.query)) =>
        IF IntParses(reply.query) /\ int(reply.query) \in DOMAIN music_files
        THEN /\ reply.kind = "id"
             /\ reply.idx = int(reply.query)
             /\ reply.title = music_files[reply.idx].title
        ELSE IF CatalogSize = 0 THEN reply.kind = "not_found"
        ELSE /\ reply.kind = "results"
             /\ Len(reply.top) >= 1
             /\ Len(reply.top) <= Min(ResultCap, CatalogSize)
             /\ \A k \in 1..Len(reply.top) :
                   /\ reply.top[k].idx \in DOMAIN music_files
                   /\ reply.top[k].score = ReplyScore(reply.top[k].idx)
             /\ (\E i \in DOMAIN music_files : ReplyScore(i) >= Threshold)
                   => \A k \in 1..Len(reply.top) :
                         reply.top[k].score >= Threshold

\* C5 on decimal digits only: what C5 states holds of every query made of
\* the digits 0-9.
C5_DecimalQuery ==
    (reply.kind \in SearchKinds /\ IntParses(reply.query)) => C5_NumericQuery

\* the query "9" on a catalog without an index 9 is scored as text and
\* finds the titles that contain a 9
C5_DecimalWitness ==
    /\ reply.kind = "results"
    /\ reply.query = <<"9">>
    /\ reply.top[1].score >= Threshold

\* C8 as stated: the empty query on a non-empty catalog is answered by the
\* fallback with up to ResultCap candidates of score 0 in index order.
C8_EmptyQueryRanked ==
    (reply.kind \in SearchKinds /\ reply.query = <<>> /\ CatalogSize > 0) =>
        /\ reply.kind = "results"
        /\ Len(reply.top) = Min(ResultCap, CatalogSize)
        /\ \A k \in 1..Len(reply.top) :
              reply.top[k].idx = k - 1 /\ reply.top[k].score = 0

\* C8 amended: the empty query scores 0 against every title, and the search
\* handler answers it, and only it, with the usage message and no candidate;
\* a query whose every score is 0 is answered by the fallback with up to
\* ResultCap candidates in ascending index order.
C8_EmptyQueryUsage ==
    reply.kind \in SearchKinds =>
        /\ reply.query = <<>> <=> reply.kind = "usage"
        /\ reply.query = <<>> =>
              \A i \in DOMAIN music_files : ReplyScore(i) = 0
        /\ (reply.kind = "results"
              /\ \A i \in DOMAIN music_files : ReplyScore(i) = 0) =>
              /\ Len(reply.top) = Min(ResultCap, CatalogSize)
              /\ \A k \in 1..Len(reply.top) :
                    reply.top[k].idx = k - 1 /\ reply.top[k].score = 0

\* C8 witness: the empty query on a catalog larger than the cap.
C8_Witness ==
    /\ reply.kind = "usage"
    /\ reply.query = <<>>
    /\ CatalogSize > ResultCap

---------------------------------------------------------------------------
(* The plugin: the handlers over the module's state.  A handler runs       *)
(* without interruption up to its first await; handle_reload,              *)
(* handle_search and the push switches touch the state only before it, and *)
(* handle_play only sends after it.  The scheduled push awaits every send. *)

\* the files that may lie in music_data
SysFiles == { File(<<"h", "9">>, ".mp3"), File(<<"U54C8">>, ".WAV") }

\* the search texts of the plugin specification
SysSearchTexts == { <<>>, <<" ", "h">>, <<"(", "h">>, <<"0">>, <<"9">> }

\* the sum of a counter table
RECURSIVE SumOver(_, _)
SumOver(counts, files) ==
    IF files = {} THEN 0
    ELSE LET f == CHOOSE x \in files : TRUE
         IN  counts[f] + SumOver(counts, files \ {f})

PlayTexts == { <<>>, <<"0">>, <<"a", "1">>, <<"9">> }

Groups == {1, 2}

Bots == {"bot"}

\* the text from its first digit on
RECURSIVE DropNonDigits(_)
DropNonDigits(s) ==
    IF s = <<>> \/ Head(s) \in DigitChars THEN s ELSE DropNonDigits(Tail(s))

\* the leading run of digits
RECURSIVE TakeDigits(_)
TakeDigits(s) ==
    IF s # <<>> /\ Head(s) \in DigitChars
    THEN <<Head(s)>> \o TakeDigits(Tail(s)) ELSE <<>>

\* re.search(r"(\d+)", text).group(1), or the empty text when nothing matches
FirstNumber(text) == TakeDigits(DropNonDigits(text))

Init ==
    /\ PYPINYIN_AVAILABLE \in BOOLEAN
    /\ disk \in SUBSET SysFiles
    /\ \E listing \in Listings(disk) : music_files = load_music_files(listing)
    /\ play_counts_by_filename = [f \in SysFiles |-> 0]
    /\ enabled_push_groups = {}
    /\ push = [pc |-> "idle"]
    /\ played = [f \in SysFiles |-> 0]
    /\ reply = [kind |-> "none"]

\* the environment puts a file into the directory or takes one out
DiskChange ==
    /\ \E f \in SysFiles : disk' = IF f \in disk THEN disk \ {f} ELSE disk \cup {f}
    /\ UNCHANGED <<music_files, play_counts_by_filename, enabled_push_groups,
                   PYPINYIN_AVAILABLE, reply, push, played>>

handle_reload ==
    /\ \E listing \in Listings(disk) : music_files' = load_music_files(listing)
    /\ reply' = [kind |-> "reload", count |-> Cardinality(DOMAIN music_files')]
    /\ UNCHANGED <<disk, play_counts_by_filename, enabled_push_groups,
                   PYPINYIN_AVAILABLE, push, played>>

\* CountPlay with one counter per index rather than per filename
CountPlayByIndex(counts, catalog, index) ==
    LET slots == CHOOSE l \in Listings(SysFiles) : TRUE
    IN  [counts EXCEPT ![slots[index + 1]] = @ + 1]

\* line 339: the counter of the file the index names goes up by one
CountPlay(counts, catalog, index) ==
    [counts EXCEPT ![catalog[index].filename] = @ + 1]

\* os.path.exists(file_path)
FileExists(files, filename) == filename \in files

\* the history of play requests: one more for a filename each time a
\* request names an index the catalog maps to it while the file is on disk
Requested(history, catalog, files, text) ==
    LET number == FirstNumber(text)
    IN  IF /\ number # <<>>
           /\ int(number) \in DOMAIN catalog
           /\ catalog[int(number)].filename \in files
        THEN [history EXCEPT ![catalog[int(number)].filename] = @ + 1]
        ELSE history

handle_play(text) ==
    /\ SumOver(played, SysFiles) < MaxPlays
    /\ played' = Requested(played, music_files, disk, text)
    /\ IF FirstNumber(text) = <<>>
       THEN /\ reply' = [kind |-> "play_usage"]
            /\ UNCHANGED play_counts_by_filename
       ELSE IF int(FirstNumber(text)) \notin DOMAIN music_files
       THEN /\ reply' = [kind |-> "play_no_index"]
            /\ UNCHANGED play_counts_by_filename
       ELSE IF ~FileExists(disk, music_files[int(FirstNumber(text))].filename)
       THEN /\ reply' = [kind |-> "play_missing"]
            /\ UNCHANGED play_counts_by_filename
       ELSE /\ play_counts_by_filename' =
                  CountPlay(play_counts_by_filename, music_files,
                            int(FirstNumber(text)))
            \* the file may be over 10MB, and either way of sending may fail
            /\ \E outcome \in {"too_large", "sent", "failed"} :
                  reply' = [kind |-> "play", outcome |-> outcome]
    /\ UNCHANGED <<disk, music_files, enabled_push_groups,
                   PYPINYIN_AVAILABLE, push>>

handle_random_hachimi ==
    /\ IF music_files = <<>> THEN reply' = [kind |-> "random_none"]
       ELSE \E idx \in DOMAIN music_files :
               IF ~FileExists(disk, music_files[idx].filename)
               THEN reply' = [kind |-> "random_missing"]
               ELSE reply' = [kind |-> "random"]
    /\ UNCHANGED <<disk, music_files, play_counts_by_filename,
                   enabled_push_groups, PYPINYIN_AVAILABLE, push, played>>

handle_enable_push(gid) ==
    /\ IF gid \in enabled_push_groups
       THEN /\ reply' = [kind |-> "push_already_on"]
            /\ UNCHANGED enabled_push_groups
       ELSE /\ enabled_push_groups' = enabled_push_groups \cup {gid}
            /\ reply' = [kind |-> "push_on"]
    /\ UNCHANGED <<disk, music_files, play_counts_by_filename,
                   PYPINYIN_AVAILABLE, push, played>>

handle_disable_push(gid) ==
    /\ IF gid \notin enabled_push_groups
       THEN /\ reply' = [kind |-> "push_already_off"]
            /\ UNCHANGED enabled_push_groups
       ELSE /\ enabled_push_groups' = enabled_push_groups \ {gid}
            /\ reply' = [kind |-> "push_off"]
    /\ UNCHANGED <<disk, music_files, play_counts_by_filename,
                   PYPINYIN_AVAILABLE, push, played>>

\* the push job after one group is done: the next group of this bot, else
\* the next bot with a fresh list(enabled_push_groups), else the end
RECURSIVE NextTargets(_, _, _)
NextTargets(bots, targets, enabled) ==
    IF targets # <<>> THEN {[pc |-> "run", bots |-> bots, targets |-> targets,
                             step |-> "text"]}
    ELSE IF Len(bots) <= 1 THEN {[pc |-> "idle"]}
    ELSE IF enabled = {} THEN NextTargets(Tail(bots), <<>>, enabled)
    ELSE {[pc |-> "run", bots |-> Tail(bots), targets |-> l, step |-> "text"] :
            l \in Listings(enabled)}

\* _push_random_to_enabled_groups up to its first await: a job that finds
\* no track, no group, a missing or an oversized file ends at once
PushStart ==
    /\ push.pc = "idle"
    /\ music_files # <<>>
    /\ enabled_push_groups # {}
    /\ \E idx \in DOMAIN music_files : FileExists(disk, music_files[idx].filename)
    /\ \E bots \in Listings(Bots), targets \in Listings(enabled_push_groups) :
          push' = [pc |-> "run", bots |-> bots, targets |-> targets,
                   step |-> "text"]
    /\ UNCHANGED <<disk, music_files, play_counts_by_filename,
                   enabled_push_groups, PYPINYIN_AVAILABLE, reply, played>>

\* one awaited bot.send_group_msg of _push_one_group, to the group at the
\* head of the targets: the text, the audio by path, the audio as base64.
\* The step is the return of that await; the job runs on to its next send,
\* the one push' stands at, without another await in between.
PushSend ==
    /\ push.pc = "run"
    /\ \E ok \in BOOLEAN :
          push' \in
            IF push.step = "text" /\ ok
               THEN {[push EXCEPT !.step = "audio"]}
            ELSE IF push.step = "audio" /\ ~ok
               THEN {[push EXCEPT !.step = "base64"]}
            ELSE NextTargets(push.bots, Tail(push.targets), enabled_push_groups)
    /\ UNCHANGED <<disk, music_files, play_counts_by_filename,
                   enabled_push_groups, PYPINYIN_AVAILABLE, reply, played>>

Next ==
    \/ DiskChange
    \/ handle_reload
    \/ \E text \in PlayTexts : handle_play(text)
    \/ handle_random_hachimi
    \/ \E gid \in Groups : handle_enable_push(gid)
    \/ \E gid \in Groups : handle_disable_push(gid)
    \/ PushStart
    \/ PushSend
    \/ \E text \in SysSearchTexts : handle_search(text)

Spec == Init /\ [][Next]_vars

---------------------------------------------------------------------------
(* Claims about the plugin, under Spec *)

\* a step that handle_search can have taken on this text: it answers with
\* one of its kinds and leaves the directory and the push job alone
SearchStep(text) ==
    /\ reply'.kind \in SearchKinds
    /\ disk' = disk
    /\ push' = push
    /\ played' = played
    /\ handle_search(text)

\* C4: in every search, whatever the other handlers and the push job have
\* done or are in the middle of, each listed index is an index of the
\* catalog the lines are formatted from, and no index is listed twice.
C4_IndicesInCatalog ==
    [][\A text \in SysSearchTexts :
          (SearchStep(text) /\ reply'.kind = "results") =>
              /\ \A k \in 1..Len(reply'.top) :
                    /\ reply'.top[k].idx \in DOMAIN music_files
                    /\ reply'.lines[k] =
                          <<reply'.top[k].idx,
                            music_files[reply'.top[k].idx].title>>
              /\ \A k, l \in 1..Len(reply'.top) :
                    k # l => reply'.top[k].idx # reply'.top[l].idx]_vars

\* C4 witness: a search answered with two candidates while a push job is
\* between two sends and plays have been counted.
C4_Witness ==
    /\ reply.kind = "results"
    /\ Len(reply.top) = 2
    /\ push.pc = "run"
    /\ \E f \in SysFiles : play_counts_by_filename[f] > 0

C10_CountsByFilename ==
    \A f \in SysFiles : play_counts_by_filename[f] = played[f]

\* C10 witness: both files have been counted, the last request ending with
\* the file rejected as too large.
C10_Witness ==
    /\ \A f \in SysFiles : play_counts_by_filename[f] >= 1
    /\ reply = [kind |-> "play", outcome |-> "too_large"]

\* C12 as stated: a push sends only to groups that are in
\* enabled_push_groups when the send is made, so that after a disable
\* command has removed a group no send of a push, one already in progress
\* included, goes to that group. A send is made where the job runs on after
\* an await: the step that leaves the job at a send to the head of its
\* targets.
C12_PushOnlyToEnabled ==
    [][(push' # push /\ push'.pc = "run")
          => Head(push'.targets) \in enabled_push_groups']_vars

=============================================================================
